---- MODULE Spec2Model ----
(***************************************************************************)
(* Model of the alica-sawtooth-payload crate: the JSON message validators  *)
(* of src/messages/json.rs and the failure type of src/messages/mod.rs.    *)
(*                                                                         *)
(* A byte buffer is a sequence of lexemes.  A lexeme is a record whose     *)
(* field k tells what it is:                                               *)
(*   "p"  one of the punctuation bytes { } [ ] , :        (field c)        *)
(*   "s"  a quoted string literal                         (field s)        *)
(*   "n"  a number literal             (fields positive, mantissa,         *)
(*                                      exponent, as json::number::Number) *)
(*   "l"  one of the literals true, false, null           (field c)        *)
(*   "j"  text that is valid UTF-8 but no JSON lexeme                      *)
(*   "x"  a byte sequence that is not valid UTF-8                          *)
(* A String (a failure's description, a field name) is a sequence of       *)
(* string pieces; format! concatenates the pieces.                         *)
(***************************************************************************)
EXTENDS Integers, Sequences, FiniteSets, TLC

(***************************************************************************)
(* json::JsonValue                                                         *)
(***************************************************************************)
Null == [t |-> "Null"]
Boolean(b) == [t |-> "Boolean", b |-> b]
String(s) == [t |-> "String", s |-> s]
Number(positive, mantissa, exponent) ==
    [t |-> "Number", positive |-> positive, mantissa |-> mantissa, exponent |-> exponent]
Integer(n) == IF n >= 0 THEN Number(TRUE, n, 0) ELSE Number(FALSE, 0 - n, 0)
Array(elems) == [t |-> "Array", elems |-> elems]
Object(members) == [t |-> "Object", members |-> members]
Member(key, val) == [key |-> key, val |-> val]

Some(v) == [some |-> TRUE, val |-> v]
None == [some |-> FALSE, val |-> Null]

\* json::object::Object::get: the value stored under the key, if any
RECURSIVE GetFrom(_, _, _)
GetFrom(members, key, i) ==
    IF i > Len(members) THEN None
    ELSE IF members[i].key = key THEN Some(members[i].val)
    ELSE GetFrom(members, key, i + 1)

Get(container, key) == GetFrom(container.members, key, 1)

\* json::object::Object::insert: replaces the value of a key already present,
\* appends otherwise
Insert(members, key, val) ==
    IF \E i \in 1..Len(members) : members[i].key = key
    THEN [i \in 1..Len(members) |->
             IF members[i].key = key THEN Member(key, val) ELSE members[i]]
    ELSE Append(members, Member(key, val))

as_str(value) == IF value.t = "String" THEN Some(value) ELSE None
as_bool(value) == IF value.t = "Boolean" THEN Some(value) ELSE None

Pow10(n) == IF n = 0 THEN 1 ELSE IF n = 1 THEN 10 ELSE IF n = 2 THEN 100 ELSE 1000

\* JsonValue::as_i64 is Number::as_fixed_point_i64(0): the mantissa scaled by
\* the exponent, with integer division for a negative exponent
as_i64(value) ==
    IF value.t # "Number" THEN None
    ELSE LET num == IF value.positive THEN value.mantissa ELSE 0 - value.mantissa
         IN  IF value.exponent = 0 THEN Some(Integer(num))
             ELSE IF value.exponent < 0
                  THEN Some(Integer(IF num >= 0
                                    THEN num \div Pow10(0 - value.exponent)
                                    ELSE 0 - ((0 - num) \div Pow10(0 - value.exponent))))
                  ELSE Some(Integer(num * Pow10(value.exponent)))

(***************************************************************************)
(* Lexemes of a byte buffer                                                *)
(***************************************************************************)
P(c) == [k |-> "p", c |-> c]
StrLit(s) == [k |-> "s", s |-> s]
NumLit(positive, mantissa, exponent) ==
    [k |-> "n", positive |-> positive, mantissa |-> mantissa, exponent |-> exponent]
Lit(c) == [k |-> "l", c |-> c]
Junk == [k |-> "j"]
BadByte == [k |-> "x"]

IsP(lexeme, c) == lexeme.k = "p" /\ lexeme.c = c

\* JsonValue::dump: the compact JSON text of a value
RECURSIVE dump(_), DumpMembers(_, _), DumpElems(_, _)
dump(value) ==
    CASE value.t = "Null" -> <<Lit("null")>>
      [] value.t = "Boolean" -> <<Lit(IF value.b THEN "true" ELSE "false")>>
      [] value.t = "String" -> <<StrLit(value.s)>>
      [] value.t = "Number" -> <<NumLit(value.positive, value.mantissa, value.exponent)>>
      [] value.t = "Array" -> <<P("[")>> \o DumpElems(value.elems, 1) \o <<P("]")>>
      [] value.t = "Object" -> <<P("{")>> \o DumpMembers(value.members, 1) \o <<P("}")>>

DumpElems(elems, i) ==
    IF i > Len(elems) THEN <<>>
    ELSE (IF i > 1 THEN <<P(",")>> ELSE <<>>) \o dump(elems[i]) \o DumpElems(elems, i + 1)

DumpMembers(members, i) ==
    IF i > Len(members) THEN <<>>
    ELSE (IF i > 1 THEN <<P(",")>> ELSE <<>>)
         \o <<StrLit(members[i].key), P(":")>> \o dump(members[i].val)
         \o DumpMembers(members, i + 1)

\* String::from_utf8: fails iff some byte sequence of the buffer is not UTF-8
from_utf8(data) == [ok |-> \A i \in 1..Len(data) : data[i].k # "x", text |-> data]

\* json::parse: a recursive-descent parser; the whole text must be one value
Parsed(v, next) == [ok |-> TRUE, val |-> v, next |-> next]
ParseError == [ok |-> FALSE, val |-> Null, next |-> 0]

RECURSIVE ParseValue(_, _), ParseMembers(_, _, _), ParseElems(_, _, _)
ParseValue(text, i) ==
    IF i > Len(text) THEN ParseError
    ELSE CASE text[i].k = "s" -> Parsed(String(text[i].s), i + 1)
           [] text[i].k = "n" ->
                Parsed(Number(text[i].positive, text[i].mantissa, text[i].exponent), i + 1)
           [] text[i].k = "l" ->
                Parsed(IF text[i].c = "null" THEN Null ELSE Boolean(text[i].c = "true"), i + 1)
           [] IsP(text[i], "{") ->
                IF i + 1 <= Len(text) /\ IsP(text[i + 1], "}")
                THEN Parsed(Object(<<>>), i + 2)
                ELSE ParseMembers(text, i + 1, <<>>)
           [] IsP(text[i], "[") ->
                IF i + 1 <= Len(text) /\ IsP(text[i + 1], "]")
                THEN Parsed(Array(<<>>), i + 2)
                ELSE ParseElems(text, i + 1, <<>>)
           [] OTHER -> ParseError

ParseMembers(text, i, members) ==
    LET after(v) ==
            IF ~v.ok \/ v.next > Len(text) THEN ParseError
            ELSE IF IsP(text[v.next], "}")
            THEN Parsed(Object(Insert(members, text[i].s, v.val)), v.next + 1)
            ELSE IF IsP(text[v.next], ",")
            THEN ParseMembers(text, v.next + 1, Insert(members, text[i].s, v.val))
            ELSE ParseError
    IN  IF i + 1 > Len(text) \/ text[i].k # "s" \/ ~IsP(text[i + 1], ":") THEN ParseError
        ELSE after(ParseValue(text, i + 2))

ParseElems(text, i, elems) ==
    LET after(v) ==
            IF ~v.ok \/ v.next > Len(text) THEN ParseError
            ELSE IF IsP(text[v.next], "]")
            THEN Parsed(Array(Append(elems, v.val)), v.next + 1)
            ELSE IF IsP(text[v.next], ",")
            THEN ParseElems(text, v.next + 1, Append(elems, v.val))
            ELSE ParseError
    IN  after(ParseValue(text, i))

parse(text) ==
    LET whole(v) == IF v.ok /\ v.next = Len(text) + 1 THEN v ELSE ParseError
    IN  whole(ParseValue(text, 1))

(***************************************************************************)
(* messages::AlicaMessageValidationError and AlicaMessageValidationResult  *)
(***************************************************************************)
InvalidFormat(message) == [variant |-> "InvalidFormat", text |-> message]
MissingField(field) == [variant |-> "MissingField", text |-> field]
NoError == [variant |-> "None", text |-> <<>>]

Ok == [ok |-> TRUE, err |-> NoError]
Err(e) == [ok |-> FALSE, err |-> e]

\* into without the name of the missing field
into_without_name(self) ==
    IF self.variant = "InvalidFormat" THEN self.text
    ELSE <<"Required field missing">>
\* impl Into<String> for AlicaMessageValidationError
into(self) ==
    IF self.variant = "InvalidFormat" THEN self.text
    ELSE <<"Required field missing: ">> \o self.text

\* field.to_string()
to_string(field) == <<field>>

\* The ? operator keeping the last failure instead of the first
AndThenLast(first, rest) == IF rest.ok THEN first ELSE rest
\* The ? operator on a check followed by the rest of the function: the first
\* failure is returned and the rest is not evaluated
AndThen(first, rest) == IF first.ok THEN rest ELSE first

(***************************************************************************)
(* messages::json::helper                                                  *)
(***************************************************************************)
ParsedObject(root_object) == [ok |-> TRUE, err |-> NoError, obj |-> root_object]
ParseFailure(e) == [ok |-> FALSE, err |-> e, obj |-> Object(<<>>)]

\* The match on the parsed root value
RootObject(root_value) ==
    IF root_value.t = "Object" THEN ParsedObject(root_value)
    ELSE ParseFailure(InvalidFormat(<<"Root of message is no object">>))

\* parse_object with the JSON check before the UTF-8 check
parse_object_json_first(data) ==
    LET of_utf8(raw_message, root_value) ==
            IF ~raw_message.ok
            THEN ParseFailure(InvalidFormat(<<"Message is no UTF-8 string">>))
            ELSE RootObject(root_value.val)
        of_json(root_value) ==
            IF ~root_value.ok
            THEN ParseFailure(InvalidFormat(<<"Message is no JSON structure">>))
            ELSE of_utf8(from_utf8(data), root_value)
    IN  of_json(parse(data))
\* parse_object taking text that is not JSON for an empty object
parse_object_lenient(data) ==
    LET of_json(root_value) ==
            IF ~root_value.ok THEN ParsedObject(Object(<<>>))
            ELSE RootObject(root_value.val)
        of_utf8(raw_message) ==
            IF ~raw_message.ok
            THEN ParseFailure(InvalidFormat(<<"Message is no UTF-8 string">>))
            ELSE of_json(parse(raw_message.text))
    IN  of_utf8(from_utf8(data))
parse_object(data) ==
    LET of_json(root_value) ==
            IF ~root_value.ok
            THEN ParseFailure(InvalidFormat(<<"Message is no JSON structure">>))
            ELSE RootObject(root_value.val)
        of_utf8(raw_message) ==
            IF ~raw_message.ok
            THEN ParseFailure(InvalidFormat(<<"Message is no UTF-8 string">>))
            ELSE of_json(parse(raw_message.text))
    IN  of_utf8(from_utf8(data))

(***************************************************************************)
(* messages::json::validation and the eleven validators.  A validator is   *)
(* named by its type; Validate is the call through                         *)
(* &dyn AlicaMessageJsonValidator.                                         *)
(***************************************************************************)
validate_string_field(container, field) ==
    LET check(value) ==
            IF ~value.some THEN Err(MissingField(to_string(field)))
            ELSE IF ~as_str(value.val).some
            THEN Err(InvalidFormat(<<field, " is no string">>))
            ELSE Ok
    IN  check(Get(container, field))

validate_integer_field(container, field) ==
    LET check(value) ==
            IF ~value.some THEN Err(MissingField(to_string(field)))
            ELSE IF ~as_i64(value.val).some
            THEN Err(InvalidFormat(<<field, " is no integer">>))
            ELSE Ok
    IN  check(Get(container, field))

\* validate_boolean_field taking a number for a boolean
validate_boolean_field_truthy(container, field) ==
    LET check(value) ==
            IF ~value.some THEN Err(MissingField(to_string(field)))
            ELSE IF ~as_bool(value.val).some /\ ~as_i64(value.val).some
            THEN Err(InvalidFormat(<<field, " is no integer">>))
            ELSE Ok
    IN  check(Get(container, field))
validate_boolean_field(container, field) ==
    LET check(value) ==
            IF ~value.some THEN Err(MissingField(to_string(field)))
            ELSE IF ~as_bool(value.val).some
            THEN Err(InvalidFormat(<<field, " is no integer">>))
            ELSE Ok
    IN  check(Get(container, field))

RECURSIVE CollectIntegers(_, _, _)
CollectIntegers(array_json, field, i) ==
    IF i > Len(array_json) THEN Ok
    ELSE IF as_i64(array_json[i]).some THEN CollectIntegers(array_json, field, i + 1)
    ELSE Err(InvalidFormat(<<field, " contains a non integer entry">>))

validate_integer_list_field(container, field) ==
    LET check(field_json) ==
            IF ~field_json.some THEN Err(MissingField(to_string(field)))
            ELSE IF field_json.val.t = "Array"
            THEN CollectIntegers(field_json.val.elems, field, 1)
            ELSE Err(InvalidFormat(<<field, " is no array">>))
    IN  check(Get(container, field))

RECURSIVE Validate(_, _), Collect(_, _, _), CollectAll(_, _, _)

\* A list check's result together with the indices of the entries that were
\* handed to the injected validator, in call order
Checked(result, invoked) == [result |-> result, invoked |-> invoked]

After(i, rest) == Checked(rest.result, <<i>> \o rest.invoked)

\* Collect validating every entry before it looks for a failure
CollectAll(array_json, validator, i) ==
    LET all(entry, rest) ==
            Checked(IF ~entry.ok THEN entry ELSE rest.result, <<i>> \o rest.invoked)
    IN  IF i > Len(array_json) THEN Checked(Ok, <<>>)
        ELSE all(Validate(validator, dump(array_json[i])),
                 CollectAll(array_json, validator, i + 1))
\* array_json.iter().map(|array_entry| validator.validate(..)).collect():
\* the iterator is consumed front to back and collect stops at the first Err
Collect(array_json, validator, i) ==
    LET next(entry) ==
            IF ~entry.ok THEN Checked(entry, <<i>>)
            ELSE After(i, Collect(array_json, validator, i + 1))
    IN  IF i > Len(array_json) THEN Checked(Ok, <<>>)
        ELSE next(Validate(validator, dump(array_json[i])))

\* The list check putting the field's name in front of an entry's failure
ListFieldWrapping(container, field, validator) ==
    LET wrap(checked) ==
            IF checked.result.ok THEN checked
            ELSE Checked(Err(InvalidFormat(<<field, " has an invalid entry: ">>
                                             \o into(checked.result.err))),
                         checked.invoked)
        check(field_json) ==
            IF ~field_json.some THEN Checked(Err(MissingField(to_string(field))), <<>>)
            ELSE IF field_json.val.t = "Array"
            THEN wrap(Collect(field_json.val.elems, validator, 1))
            ELSE Checked(Err(InvalidFormat(<<field, " is no array">>)), <<>>)
    IN  check(Get(container, field))
ListFieldWithComplexComponents(container, field, validator) ==
    LET check(field_json) ==
            IF ~field_json.some THEN Checked(Err(MissingField(to_string(field))), <<>>)
            ELSE IF field_json.val.t = "Array"
            THEN Collect(field_json.val.elems, validator, 1)
            ELSE Checked(Err(InvalidFormat(<<field, " is no array">>)), <<>>)
    IN  check(Get(container, field))

validate_list_field_with_complex_components(container, field, validator) ==
    ListFieldWithComplexComponents(container, field, validator).result

\* CapnZeroIdValidator reading the number under "kind"
CapnZeroIdValidatorKind(message) ==
    LET validate(capnzero_id_root) ==
            IF ~capnzero_id_root.ok THEN Err(capnzero_id_root.err)
            ELSE AndThen(validate_integer_field(capnzero_id_root.obj, "kind"),
                         validate_string_field(capnzero_id_root.obj, "value"))
    IN  validate(parse_object(message))
\* CapnZeroIdValidator refusing fields it does not know
CapnZeroIdValidatorStrict(message) ==
    LET validate(capnzero_id_root) ==
            IF ~capnzero_id_root.ok THEN Err(capnzero_id_root.err)
            ELSE IF \E k \in 1..Len(capnzero_id_root.obj.members) :
                        capnzero_id_root.obj.members[k].key \notin {"type", "value"}
            THEN Err(InvalidFormat(<<"unknown field">>))
            ELSE AndThen(validate_integer_field(capnzero_id_root.obj, "type"),
                         validate_string_field(capnzero_id_root.obj, "value"))
    IN  validate(parse_object(message))
CapnZeroIdValidator(message) ==
    LET validate(capnzero_id_root) ==
            IF ~capnzero_id_root.ok THEN Err(capnzero_id_root.err)
            ELSE AndThen(validate_integer_field(capnzero_id_root.obj, "type"),
                         validate_string_field(capnzero_id_root.obj, "value"))
    IN  validate(parse_object(message))

\* validate_capnzero_id_field reading an absent field as null
validate_capnzero_id_field_indexed(container, field) ==
    CapnZeroIdValidator(dump(Get(container, field).val))
\* validate_capnzero_id_field checking only that the field is present
validate_capnzero_id_field_present(container, field) ==
    IF Get(container, field).some THEN Ok
    ELSE Err(MissingField(to_string(field)))
\* validate_capnzero_id_field handing over the text of a string instead of
\* its dump
validate_capnzero_id_field_raw(container, field) ==
    LET check(id) ==
            IF ~id.some THEN Err(MissingField(to_string(field)))
            ELSE IF as_str(id.val).some THEN CapnZeroIdValidator(<<Junk>>)
            ELSE CapnZeroIdValidator(dump(id.val))
    IN  check(Get(container, field))
validate_capnzero_id_field(container, field) ==
    LET check(id) ==
            IF id.some THEN CapnZeroIdValidator(dump(id.val))
            ELSE Err(MissingField(to_string(field)))
    IN  check(Get(container, field))

AlicaEngineInfoValidator(message) ==
    LET validate(engine_info_root) ==
            IF ~engine_info_root.ok THEN Err(engine_info_root.err)
            ELSE AndThen(validate_capnzero_id_field(engine_info_root.obj, "senderId"),
                 AndThen(validate_string_field(engine_info_root.obj, "masterPlan"),
                 AndThen(validate_string_field(engine_info_root.obj, "currentPlan"),
                 AndThen(validate_string_field(engine_info_root.obj, "currentState"),
                 AndThen(validate_string_field(engine_info_root.obj, "currentRole"),
                 AndThen(validate_string_field(engine_info_root.obj, "currentTask"),
                         validate_list_field_with_complex_components(
                             engine_info_root.obj, "agentIdsWithMe",
                             "CapnZeroIdValidator")))))))
    IN  validate(parse_object(message))

EntryPointRobotValidator(message) ==
    LET validate(entry_point_robot) ==
            IF ~entry_point_robot.ok THEN Err(entry_point_robot.err)
            ELSE AndThen(validate_integer_field(entry_point_robot.obj, "entrypoint"),
                         validate_list_field_with_complex_components(
                             entry_point_robot.obj, "robots", "CapnZeroIdValidator"))
    IN  validate(parse_object(message))

AllocationAuthorityInfoValidator(message) ==
    LET validate(allocation_authority_info_root) ==
            IF ~allocation_authority_info_root.ok
            THEN Err(allocation_authority_info_root.err)
            ELSE AndThen(validate_capnzero_id_field(allocation_authority_info_root.obj, "senderId"),
                 AndThen(validate_integer_field(allocation_authority_info_root.obj, "planId"),
                 AndThen(validate_integer_field(allocation_authority_info_root.obj, "parentState"),
                 AndThen(validate_integer_field(allocation_authority_info_root.obj, "planType"),
                 AndThen(validate_capnzero_id_field(allocation_authority_info_root.obj, "authority"),
                         validate_list_field_with_complex_components(
                             allocation_authority_info_root.obj, "entrypointRobots",
                             "EntryPointRobotValidator"))))))
    IN  validate(parse_object(message))

PlanTreeInfoValidator(message) ==
    LET validate(plan_tree_info) ==
            IF ~plan_tree_info.ok THEN Err(plan_tree_info.err)
            ELSE AndThen(validate_capnzero_id_field(plan_tree_info.obj, "senderId"),
                 AndThen(validate_integer_list_field(plan_tree_info.obj, "stateIds"),
                         validate_integer_list_field(plan_tree_info.obj, "succeededEps")))
    IN  validate(parse_object(message))

RoleSwitchValidator(message) ==
    LET validate(role_switch) ==
            IF ~role_switch.ok THEN Err(role_switch.err)
            ELSE AndThen(validate_capnzero_id_field(role_switch.obj, "senderId"),
                         validate_integer_field(role_switch.obj, "roleId"))
    IN  validate(parse_object(message))

SolverVarValidator(message) ==
    LET validate(solver_var) ==
            IF ~solver_var.ok THEN Err(solver_var.err)
            ELSE AndThen(validate_integer_field(solver_var.obj, "id"),
                         validate_integer_list_field(solver_var.obj, "value"))
    IN  validate(parse_object(message))

SolverResultValidator(message) ==
    LET validate(solver_result) ==
            IF ~solver_result.ok THEN Err(solver_result.err)
            ELSE AndThen(validate_capnzero_id_field(solver_result.obj, "senderId"),
                         validate_list_field_with_complex_components(
                             solver_result.obj, "vars", "SolverVarValidator"))
    IN  validate(parse_object(message))

SyncReadyValidator(message) ==
    LET validate(sync_ready) ==
            IF ~sync_ready.ok THEN Err(sync_ready.err)
            ELSE AndThen(validate_capnzero_id_field(sync_ready.obj, "senderId"),
                         validate_integer_field(sync_ready.obj, "synchronisationId"))
    IN  validate(parse_object(message))

SyncDataValidator(message) ==
    LET validate(sync_data) ==
            IF ~sync_data.ok THEN Err(sync_data.err)
            ELSE AndThen(validate_capnzero_id_field(sync_data.obj, "robotId"),
                 AndThen(validate_integer_field(sync_data.obj, "transitionId"),
                 AndThen(validate_boolean_field(sync_data.obj, "transitionHolds"),
                         validate_boolean_field(sync_data.obj, "ack"))))
    IN  validate(parse_object(message))

SyncTalkValidator(message) ==
    LET validate(sync_talk) ==
            IF ~sync_talk.ok THEN Err(sync_talk.err)
            ELSE AndThen(validate_capnzero_id_field(sync_talk.obj, "senderId"),
                         validate_list_field_with_complex_components(
                             sync_talk.obj, "syncData", "SyncDataValidator"))
    IN  validate(parse_object(message))

\* validator.validate(message) through &dyn AlicaMessageJsonValidator
Validate(validator, message) ==
    CASE validator = "AlicaEngineInfoValidator" -> AlicaEngineInfoValidator(message)
      [] validator = "AllocationAuthorityInfoValidator" ->
            AllocationAuthorityInfoValidator(message)
      [] validator = "EntryPointRobotValidator" -> EntryPointRobotValidator(message)
      [] validator = "PlanTreeInfoValidator" -> PlanTreeInfoValidator(message)
      [] validator = "RoleSwitchValidator" -> RoleSwitchValidator(message)
      [] validator = "SolverResultValidator" -> SolverResultValidator(message)
      [] validator = "SolverVarValidator" -> SolverVarValidator(message)
      [] validator = "SyncReadyValidator" -> SyncReadyValidator(message)
      [] validator = "SyncTalkValidator" -> SyncTalkValidator(message)
      [] validator = "SyncDataValidator" -> SyncDataValidator(message)
      [] validator = "CapnZeroIdValidator" -> CapnZeroIdValidator(message)

(***************************************************************************)
(* The documents the validators are called with.  A document is the        *)
(* complete document of a validator's tests (every list with ListLen       *)
(* entries), changed at up to two places, optionally with unknown fields   *)
(* added, dumped to bytes, and optionally damaged as bytes.                *)
(***************************************************************************)
ListLen == 2

Field(name, kind, elem) == [name |-> name, kind |-> kind, elem |-> elem]

\* The fields of the complete documents in mod test of src/messages/json.rs
Fields(validator) ==
    CASE validator = "AlicaEngineInfoValidator" ->
            << Field("senderId", "id", "CapnZeroIdValidator"),
               Field("masterPlan", "string", ""),
               Field("currentPlan", "string", ""),
               Field("currentState", "string", ""),
               Field("currentRole", "string", ""),
               Field("currentTask", "string", ""),
               Field("agentIdsWithMe", "list", "CapnZeroIdValidator") >>
      [] validator = "AllocationAuthorityInfoValidator" ->
            << Field("senderId", "id", "CapnZeroIdValidator"),
               Field("planId", "integer", ""),
               Field("parentState", "integer", ""),
               Field("planType", "integer", ""),
               Field("authority", "id", "CapnZeroIdValidator"),
               Field("entrypointRobots", "list", "EntryPointRobotValidator") >>
      [] validator = "EntryPointRobotValidator" ->
            << Field("entrypoint", "integer", ""),
               Field("robots", "list", "CapnZeroIdValidator") >>
      [] validator = "PlanTreeInfoValidator" ->
            << Field("senderId", "id", "CapnZeroIdValidator"),
               Field("stateIds", "intlist", ""),
               Field("succeededEps", "intlist", "") >>
      [] validator = "RoleSwitchValidator" ->
            << Field("senderId", "id", "CapnZeroIdValidator"),
               Field("roleId", "integer", "") >>
      [] validator = "SolverResultValidator" ->
            << Field("senderId", "id", "CapnZeroIdValidator"),
               Field("vars", "list", "SolverVarValidator") >>
      [] validator = "SolverVarValidator" ->
            << Field("id", "integer", ""),
               Field("value", "intlist", "") >>
      [] validator = "SyncReadyValidator" ->
            << Field("senderId", "id", "CapnZeroIdValidator"),
               Field("synchronisationId", "integer", "") >>
      [] validator = "SyncTalkValidator" ->
            << Field("senderId", "id", "CapnZeroIdValidator"),
               Field("syncData", "list", "SyncDataValidator") >>
      [] validator = "SyncDataValidator" ->
            << Field("robotId", "id", "CapnZeroIdValidator"),
               Field("transitionId", "integer", ""),
               Field("transitionHolds", "boolean", ""),
               Field("ack", "boolean", "") >>
      [] validator = "CapnZeroIdValidator" ->
            << Field("type", "integer", ""),
               Field("value", "string", "") >>

Validators ==
    { "AlicaEngineInfoValidator", "AllocationAuthorityInfoValidator",
      "EntryPointRobotValidator", "PlanTreeInfoValidator", "RoleSwitchValidator",
      "SolverResultValidator", "SolverVarValidator", "SyncReadyValidator",
      "SyncTalkValidator", "SyncDataValidator", "CapnZeroIdValidator" }

FieldNames(validator) == { Fields(validator)[k].name : k \in 1..Len(Fields(validator)) }

RECURSIVE CompleteDocument(_)
CompleteValue(fd) ==
    CASE fd.kind = "string" -> String("text")
      [] fd.kind = "integer" -> Integer(1)
      [] fd.kind = "boolean" -> Boolean(TRUE)
      [] fd.kind = "id" -> CompleteDocument(fd.elem)
      [] fd.kind = "intlist" -> Array([i \in 1..ListLen |-> Integer(i)])
      [] fd.kind = "list" -> Array([i \in 1..ListLen |-> CompleteDocument(fd.elem)])

CompleteDocument(validator) ==
    Object([k \in 1..Len(Fields(validator)) |->
               Member(Fields(validator)[k].name, CompleteValue(Fields(validator)[k]))])

\* A place in a document: the steps from the root.  A step names a field
\* of an object and, with i > 0, the i-th entry of the array in that field.
Step(f, i) == [f |-> f, i |-> i]

RECURSIVE Paths(_)
FieldPaths(fd) ==
    LET here == <<Step(fd.name, 0)>> IN
    CASE fd.kind \in {"string", "integer", "boolean"} -> {here}
      [] fd.kind = "id" -> {here} \cup { here \o p : p \in Paths(fd.elem) }
      [] fd.kind = "intlist" -> {here} \cup { <<Step(fd.name, i)>> : i \in 1..ListLen }
      [] fd.kind = "list" ->
            {here} \cup UNION { { <<Step(fd.name, i)>> }
                                  \cup { <<Step(fd.name, i)>> \o p : p \in Paths(fd.elem) }
                                : i \in 1..ListLen }

Paths(validator) ==
    UNION { FieldPaths(Fields(validator)[k]) : k \in 1..Len(Fields(validator)) }

Variants == { "missing", "asNull", "asString", "asInteger", "asBoolean", "asArray" }
PairVariants == { "missing", "asNull" }

Defect(path, variant) == [path |-> path, variant |-> variant]

DefectsWith(paths, variants) ==
    { d \in { Defect(p, v) : p \in paths, v \in variants } :
        d.variant = "missing" => d.path[Len(d.path)].i = 0 }

\* No defect, one defect of any variant, or two different defects of the
\* variants every kind of field rejects
ShapesOver(paths) ==
    LET single == DefectsWith(paths, Variants)
        paired == DefectsWith(paths, PairVariants)
    IN  { <<>> } \cup { <<d>> : d \in single }
                 \cup UNION { { <<d1, d2>> : d2 \in paired \ {d1} } : d1 \in paired }

AllShapes == [v \in Validators |-> ShapesOver(Paths(v))]

Shapes(validator) == AllShapes[validator]

VariantValue(variant) ==
    CASE variant = "asNull" -> Null
      [] variant = "asString" -> String("other")
      [] variant = "asInteger" -> Integer(7)
      [] variant = "asBoolean" -> Boolean(FALSE)
      [] variant = "asArray" -> Array(<<>>)

Remove(seq, k) == [j \in 1..(Len(seq) - 1) |-> IF j < k THEN seq[j] ELSE seq[j + 1]]

\* The value with the place at the path changed; a path that does not lead
\* anywhere in the value changes nothing
RECURSIVE Change(_, _, _)
Change(value, path, variant) ==
    IF value.t # "Object" THEN value
    ELSE LET step == path[1]
             last == Len(path) = 1
             hit == { k \in 1..Len(value.members) : value.members[k].key = step.f }
         IN  IF hit = {} THEN value
             ELSE LET k == CHOOSE k \in hit : TRUE
                      old == value.members[k].val
                  IN  IF step.i = 0
                      THEN IF last /\ variant = "missing"
                           THEN Object(Remove(value.members, k))
                           ELSE Object([value.members EXCEPT ![k].val =
                                    IF last THEN VariantValue(variant)
                                    ELSE Change(old, Tail(path), variant)])
                      ELSE IF old.t # "Array" \/ step.i > Len(old.elems) THEN value
                           ELSE Object([value.members EXCEPT ![k].val =
                                    Array([old.elems EXCEPT ![step.i] =
                                        IF last THEN VariantValue(variant)
                                        ELSE Change(old.elems[step.i], Tail(path), variant)])])

RECURSIVE ChangeAll(_, _, _)
ChangeAll(value, defects, k) ==
    IF k > Len(defects) THEN value
    ELSE ChangeAll(Change(value, defects[k].path, defects[k].variant), defects, k + 1)

Unknown == Member("unknown", String("ignored"))

\* Unknown fields added to the root object only, or to every object
RECURSIVE WithUnknown(_, _)
WithUnknown(value, deep) ==
    CASE value.t = "Object" ->
            Object(<<Unknown>> \o
                   [k \in 1..Len(value.members) |->
                       IF deep
                       THEN Member(value.members[k].key, WithUnknown(value.members[k].val, deep))
                       ELSE value.members[k]])
      [] value.t = "Array" /\ deep ->
            Array([k \in 1..Len(value.elems) |-> WithUnknown(value.elems[k], deep)])
      [] OTHER -> value

Extras == { "none", "root", "everywhere" }

Document(validator, defects, extra) ==
    LET changed == ChangeAll(CompleteDocument(validator), defects, 1) IN
    IF extra = "none" THEN changed ELSE WithUnknown(changed, extra = "everywhere")

Damages == { "none", "empty", "truncated", "trailing", "nul", "nonUtf8",
             "nonUtf8Truncated", "array", "scalar" }

\* The bytes of a document's text after damage
Damaged(bytes, damage) ==
    CASE damage = "none" -> bytes
      [] damage = "empty" -> <<>>
      [] damage = "truncated" -> SubSeq(bytes, 1, Len(bytes) - 1)
      [] damage = "trailing" -> bytes \o <<P("}")>>
      [] damage = "nul" -> <<Junk>>
      [] damage = "nonUtf8" -> bytes \o <<BadByte>>
      [] damage = "nonUtf8Truncated" -> <<BadByte>> \o SubSeq(bytes, 1, Len(bytes) - 1)
      [] damage = "array" -> <<P("[")>> \o bytes \o <<P("]")>>
      [] damage = "scalar" -> <<NumLit(TRUE, 1, 0)>>

Bytes(validator, defects, extra, damage) ==
    Damaged(dump(Document(validator, defects, extra)), damage)

(***************************************************************************)
(* The state: one call of one operation.  The caller's choices (op,        *)
(* validator, defects, extra, damage, field) fix the arguments; message is *)
(* the byte buffer of the call; outcome, root and invoked are what the     *)
(* call returned and did; text is the string a failure was converted to.   *)
(* payload, bytes, serialized and parsed are the arguments and results of  *)
(* the payload format's calls, and calls holds the validation calls that   *)
(* run on separate threads; family is the transaction family of a call of  *)
(* one of its methods and returned what the method returned.               *)
(***************************************************************************)
VARIABLES op, validator, defects, extra, damage, field, message, pc, outcome, root, invoked,
          text, payload, bytes, serialized, parsed, calls, family, returned

vars == <<op, validator, defects, extra, damage, field, message, pc, outcome, root, invoked,
          text, payload, bytes, serialized, parsed, calls, family, returned>>

\* The variables of the transaction family's calls
families == <<family, returned>>

\* The variables of the payload format's calls
codec == <<payload, bytes, serialized, parsed>>

\* The value of a variable no call has written
Unset == <<>>

Pending == [ok |-> FALSE, err |-> NoError]

ListFields(v) == { Fields(v)[k].name : k \in { j \in 1..Len(Fields(v)) : Fields(v)[j].kind = "list" } }

FieldNamed(v, name) == Fields(v)[CHOOSE k \in 1..Len(Fields(v)) : Fields(v)[k].name = name]

\* The arguments a caller can choose for each operation
Arguments(o, v, ds, ex, dm, fl) ==
    \/ /\ o = "validate"
       /\ \/ dm = "none" /\ (ex = "none" \/ Len(ds) <= 1)
          \/ dm # "none" /\ ex = "none" /\ Len(ds) <= 1
                /\ \A k \in 1..Len(ds) : ds[k].variant \in PairVariants
       /\ fl = ""
    \/ /\ o = "parse_object"
       /\ Len(ds) <= 1
       /\ ex = "none"
       /\ fl = ""
    \/ /\ o = "validate_capnzero_id_field"
       /\ Len(ds) <= 1
       /\ ex \in {"none", "everywhere"} /\ dm = "none"
       /\ fl \in FieldNames(v) \cup {"absent"}
    \/ /\ o = "validate_list_field_with_complex_components"
       /\ fl \in ListFields(v)
       /\ \A k \in 1..Len(ds) : ds[k].path[1].f = fl
       /\ ex = "none" /\ dm = "none"

Ops == { "validate", "parse_object", "validate_capnzero_id_field",
         "validate_list_field_with_complex_components" }

Init ==
    \E v \in Validators :
      \E ds \in Shapes(v) :
        \E o \in Ops, ex \in Extras, dm \in Damages, fl \in FieldNames(v) \cup {"", "absent"} :
          /\ Arguments(o, v, ds, ex, dm, fl)
          /\ op = o /\ validator = v /\ defects = ds /\ extra = ex /\ damage = dm /\ field = fl
          /\ message = Bytes(v, ds, ex, dm)
          /\ pc = "ready"
          /\ outcome = Pending
          /\ root = Object(<<>>)
          /\ invoked = <<>>
          /\ text = Unset /\ calls = Unset /\ family = Unset /\ returned = Unset
          /\ payload = Unset /\ bytes = Unset /\ serialized = Unset /\ parsed = Unset

Returns(result) ==
    /\ outcome' = result
    /\ pc' = "done"
    /\ UNCHANGED <<op, validator, defects, extra, damage, field, message, root, invoked>>
    /\ UNCHANGED <<text, codec, calls, families>>

Calls(v) == pc = "ready" /\ op = "validate" /\ validator = v

AlicaEngineInfo ==
    Calls("AlicaEngineInfoValidator") /\ Returns(Validate("AlicaEngineInfoValidator", message))
AllocationAuthorityInfo ==
    Calls("AllocationAuthorityInfoValidator") /\ Returns(Validate("AllocationAuthorityInfoValidator", message))
EntryPointRobot ==
    Calls("EntryPointRobotValidator") /\ Returns(Validate("EntryPointRobotValidator", message))
PlanTreeInfo ==
    Calls("PlanTreeInfoValidator") /\ Returns(Validate("PlanTreeInfoValidator", message))
RoleSwitch ==
    Calls("RoleSwitchValidator") /\ Returns(Validate("RoleSwitchValidator", message))
SolverResult ==
    Calls("SolverResultValidator") /\ Returns(Validate("SolverResultValidator", message))
SolverVar ==
    Calls("SolverVarValidator") /\ Returns(Validate("SolverVarValidator", message))
SyncReady ==
    Calls("SyncReadyValidator") /\ Returns(Validate("SyncReadyValidator", message))
SyncTalk ==
    Calls("SyncTalkValidator") /\ Returns(Validate("SyncTalkValidator", message))
SyncData ==
    Calls("SyncDataValidator") /\ Returns(Validate("SyncDataValidator", message))
CapnZeroId ==
    Calls("CapnZeroIdValidator") /\ Returns(Validate("CapnZeroIdValidator", message))

ParseObject ==
    /\ pc = "ready" /\ op = "parse_object"
    /\ LET result == parse_object(message) IN
         /\ outcome' = [ok |-> result.ok, err |-> result.err]
         /\ root' = result.obj
    /\ pc' = "done"
    /\ UNCHANGED <<op, validator, defects, extra, damage, field, message, invoked>>
    /\ UNCHANGED <<text, codec, calls, families>>

\* The container of a direct call of a field check is the parsed message
ValidateCapnzeroIdField ==
    /\ pc = "ready" /\ op = "validate_capnzero_id_field"
    /\ LET container == parse_object(message).obj IN
         /\ outcome' = validate_capnzero_id_field(container, field)
         /\ root' = container
    /\ pc' = "done"
    /\ UNCHANGED <<op, validator, defects, extra, damage, field, message, invoked>>
    /\ UNCHANGED <<text, codec, calls, families>>

ValidateListFieldWithComplexComponents ==
    /\ pc = "ready" /\ op = "validate_list_field_with_complex_components"
    /\ LET container == parse_object(message).obj
           checked == ListFieldWithComplexComponents(
                          container, field, FieldNamed(validator, field).elem)
       IN  /\ outcome' = checked.result
           /\ invoked' = checked.invoked
           /\ root' = container
    /\ pc' = "done"
    /\ UNCHANGED <<op, validator, defects, extra, damage, field, message>>
    /\ UNCHANGED <<text, codec, calls, families>>

Next ==
    \/ AlicaEngineInfo
    \/ AllocationAuthorityInfo
    \/ EntryPointRobot
    \/ PlanTreeInfo
    \/ RoleSwitch
    \/ SolverResult
    \/ SolverVar
    \/ SyncReady
    \/ SyncTalk
    \/ SyncData
    \/ CapnZeroId
    \/ ParseObject
    \/ ValidateCapnzeroIdField
    \/ ValidateListFieldWithComplexComponents

Spec == Init /\ [][Next]_vars

(***************************************************************************)
(* Properties of the validators                                            *)
(***************************************************************************)
Validated == pc = "done" /\ op = "validate"

Least(set) == CHOOSE i \in set : \A j \in set : i <= j

\* The defects of a document that lie in one field of its root
DefectsAt(name) == SelectSeq(defects, LAMBDA d : d.path[1].f = name)

\* What the validator returns for the document in which only that field of
\* the root differs from the complete document
AloneOutcome(name) == Validate(validator, Bytes(validator, DefectsAt(name), extra, "none"))

InvalidFields == { k \in 1..Len(Fields(validator)) : ~AloneOutcome(Fields(validator)[k].name).ok }

\* The position in the schema of the earliest invalid field from k on, or 0
RECURSIVE EarliestInvalidFrom(_)
EarliestInvalidFrom(k) ==
    IF k > Len(Fields(validator)) THEN 0
    ELSE IF ~AloneOutcome(Fields(validator)[k].name).ok THEN k
    ELSE EarliestInvalidFrom(k + 1)

EarliestInvalid == EarliestInvalidFrom(1)

\* C1: a validator returns the failure of the earliest invalid field in the
\* order of its schema, whatever the later fields are
C1_FirstFailureInSchemaOrder ==
    (Validated /\ damage = "none")
        => LET k == EarliestInvalid IN
           k # 0 => outcome = AloneOutcome(Fields(validator)[k].name)

C1_Witness ==
    /\ Validated /\ damage = "none" /\ validator = "SyncDataValidator"
    /\ ~outcome.ok
    /\ LET invalid == InvalidFields IN
         /\ Cardinality(invalid) = 2
         /\ \E k \in invalid : AloneOutcome(Fields(validator)[k].name) # outcome

TopLevel(d) == Len(d.path) = 1 /\ d.path[1].i = 0

\* C2: a valid document with one required field removed is rejected with
\* MissingField carrying the name of that field
C2_RemovedFieldIsMissingField ==
    (Validated /\ damage = "none" /\ Len(defects) = 1
        /\ TopLevel(defects[1]) /\ defects[1].variant = "missing")
        => outcome = Err(MissingField(<<defects[1].path[1].f>>))

C2_Witness ==
    /\ Validated /\ damage = "none" /\ Len(defects) = 1
    /\ TopLevel(defects[1]) /\ defects[1].variant = "missing"
    /\ validator = "AlicaEngineInfoValidator" /\ defects[1].path[1].f = "agentIdsWithMe"
    /\ outcome.err.variant = "MissingField"

\* The variants that put a scalar of another type in a field of that kind
WrongScalars(kind) ==
    { "asNull", "asString", "asInteger", "asBoolean" }
        \ (CASE kind = "string" -> {"asString"}
             [] kind = "integer" -> {"asInteger"}
             [] kind = "boolean" -> {"asBoolean"}
             [] OTHER -> {})

\* C3: a valid document with one field's value replaced by a scalar of a
\* wrong type is rejected with InvalidFormat
C3_WrongScalarIsInvalidFormat ==
    (Validated /\ damage = "none" /\ Len(defects) = 1 /\ TopLevel(defects[1])
        /\ defects[1].variant
              \in WrongScalars(FieldNamed(validator, defects[1].path[1].f).kind))
        => (~outcome.ok /\ outcome.err.variant = "InvalidFormat")

C3_Witness ==
    /\ Validated /\ damage = "none" /\ Len(defects) = 1 /\ TopLevel(defects[1])
    /\ validator = "SyncDataValidator" /\ defects[1].path[1].f = "transitionHolds"
    /\ defects[1].variant = "asInteger"
    /\ outcome.err.variant = "InvalidFormat"

\* C4: a complete document is valid, and unknown fields at the root or in
\* nested objects never change the outcome
C4_UnknownFieldsAreIgnored ==
    (Validated /\ damage = "none")
        => /\ defects = <<>> => outcome = Ok
           /\ outcome = Validate(validator, Bytes(validator, defects, "none", "none"))

C4_Witness ==
    /\ Validated /\ damage = "none" /\ defects = <<>> /\ extra = "everywhere"
    /\ validator = "AllocationAuthorityInfoValidator"
    /\ Len(message) > Len(Bytes(validator, defects, "none", "none"))
    /\ outcome.ok

\* C5: parse_object fails with "no UTF-8 string" for bytes that are not
\* UTF-8, else with "no JSON structure" for text that is not JSON, else
\* with "Root of message is no object" for an array or scalar, and else
\* returns the root object
C5_ParseObjectFailureOrder ==
    (pc = "done" /\ op = "parse_object")
        => IF ~from_utf8(message).ok
           THEN outcome = Err(InvalidFormat(<<"Message is no UTF-8 string">>))
           ELSE IF ~parse(message).ok
           THEN outcome = Err(InvalidFormat(<<"Message is no JSON structure">>))
           ELSE IF parse(message).val.t # "Object"
           THEN outcome = Err(InvalidFormat(<<"Root of message is no object">>))
           ELSE /\ outcome = Ok
                /\ root = Document(validator, defects, extra)

C5_Witness ==
    /\ pc = "done" /\ op = "parse_object"
    /\ damage = "nonUtf8Truncated"
    /\ ~parse(message).ok
    /\ outcome.err.text = <<"Message is no UTF-8 string">>

Rejected == { "empty", "truncated", "trailing", "nul", "nonUtf8", "nonUtf8Truncated" }

\* C6: every validator rejects bytes that are not UTF-8, empty input and
\* text that is not JSON with InvalidFormat
C6_MalformedInputIsInvalidFormat ==
    (Validated /\ damage \in Rejected)
        => (~outcome.ok /\ outcome.err.variant = "InvalidFormat")

C6_Witness ==
    /\ Validated /\ damage = "empty" /\ message = <<>>
    /\ validator = "SyncTalkValidator"
    /\ outcome.err.variant = "InvalidFormat"

ListChecked == pc = "done" /\ op = "validate_list_field_with_complex_components"

\* The entries of the array in the checked field, and those of them the
\* injected validator rejects
Entries == Get(root, field).val.elems
Injected == FieldNamed(validator, field).elem
EntryOutcome(i) == Validate(Injected, dump(Entries[i]))
BadEntries == { i \in 1..Len(Entries) : ~EntryOutcome(i).ok }

\* C7: the list check returns what the injected validator reports for the
\* first invalid entry, and the validator is invoked on the entries up to
\* that one and on no later entry
C7_ListCheckIsFailFast ==
    (ListChecked /\ Get(root, field).some /\ Get(root, field).val.t = "Array")
        => LET bad == BadEntries IN
           IF bad = {}
           THEN outcome = Ok /\ invoked = [i \in 1..Len(Entries) |-> i]
           ELSE outcome = EntryOutcome(Least(bad)) /\ invoked = [i \in 1..Least(bad) |-> i]

C7_Witness ==
    /\ ListChecked /\ Get(root, field).some /\ Get(root, field).val.t = "Array"
    /\ Cardinality(BadEntries) >= 2
    /\ \E i \in BadEntries : EntryOutcome(i) # outcome
    /\ Len(invoked) < Len(Entries)

BadIn(elems, v) == { i \in 1..Len(elems) : ~Validate(v, dump(elems[i])).ok }
FirstBadIn(elems, v) == LET bad == BadIn(elems, v) IN elems[Least(bad)]

\* The k-th field of the schema and its value in the message
Failing(k) ==
    LET fd == Fields(validator)[k]
    IN  [fd |-> fd, value |-> Get(parse_object(message).obj, fd.name)]

FailsInList(failing) ==
    /\ failing.fd.kind = "list"
    /\ failing.value.some /\ failing.value.val.t = "Array"

FailsInIdentifier(failing) ==
    /\ failing.fd.kind = "id"
    /\ failing.value.some

\* An entry of entrypointRobots that fails in its robots list
FailsInRobots(entry) ==
    /\ validator = "AllocationAuthorityInfoValidator"
    /\ entry.t = "Object"
    /\ validate_integer_field(entry, "entrypoint").ok
    /\ Get(entry, "robots").some /\ Get(entry, "robots").val.t = "Array"

\* C8: the failure of a nested validator is what every enclosing validator
\* returns, with the same variant and the same string
C8_NestedFailureUnchanged ==
    (Validated /\ damage = "none" /\ EarliestInvalid # 0) =>
        LET failing == Failing(EarliestInvalid) IN
        /\ FailsInIdentifier(failing) => outcome = CapnZeroIdValidator(dump(failing.value.val))
        /\ FailsInList(failing) =>
              LET entry == FirstBadIn(failing.value.val.elems, failing.fd.elem) IN
              /\ outcome = Validate(failing.fd.elem, dump(entry))
              /\ FailsInRobots(entry) =>
                    outcome = CapnZeroIdValidator(
                        dump(FirstBadIn(Get(entry, "robots").val.elems, "CapnZeroIdValidator")))

C8_Witness ==
    /\ Validated /\ damage = "none" /\ EarliestInvalid # 0
    /\ outcome = Err(MissingField(<<"value">>))
    /\ validator = "AllocationAuthorityInfoValidator"
    /\ LET failing == Failing(EarliestInvalid) IN
         /\ FailsInList(failing)
         /\ FailsInRobots(FirstBadIn(failing.value.val.elems, failing.fd.elem))

\* The kind of the place a path leads to in a validator's documents: the
\* kind of a field, "entry" for an entry of a list of nested objects,
\* "number" for an entry of a list of integers
RECURSIVE PlaceKind(_, _)
PlaceKind(v, path) ==
    LET fd == FieldNamed(v, path[1].f) IN
    IF Len(path) > 1 THEN PlaceKind(fd.elem, Tail(path))
    ELSE IF path[1].i = 0 THEN fd.kind
    ELSE IF fd.kind = "list" THEN "entry" ELSE "number"

Names(string, name) == \E i \in 1..Len(string) : string[i] = name

\* A document with one defect was validated and rejected
RejectedForOneDefect == Validated /\ damage = "none" /\ Len(defects) = 1 /\ ~outcome.ok

Innermost == defects[1].path[Len(defects[1].path)].f

NotAnObject ==
    /\ PlaceKind(validator, defects[1].path) \in {"id", "entry"}
    /\ defects[1].variant # "missing"

\* C9 as stated: the string of every failure names the innermost field that
\* was wrong, also for an identifier or list entry that is not an object
C9_AlwaysNamesInnermostField ==
    RejectedForOneDefect => Names(into(outcome.err), Innermost)

\* C9: the string of a failure names the innermost field that was wrong,
\* unless the defect is an identifier field or an entry of a list of nested
\* objects whose value is not an object: then the string is "Root of message
\* is no object" and names no field
C9_NamesInnermostFieldUnlessNotAnObject ==
    RejectedForOneDefect =>
        IF NotAnObject
        THEN into(outcome.err) = <<"Root of message is no object">>
        ELSE Names(into(outcome.err), Innermost)

C9_Witness ==
    /\ RejectedForOneDefect
    /\ validator = "AllocationAuthorityInfoValidator"
    /\ Len(defects[1].path) = 3
    /\ defects[1].variant = "missing"
    /\ into(outcome.err) = <<"Required field missing: ", "value">>

IdChecked == pc = "done" /\ op = "validate_capnzero_id_field"

\* An integer as the documents of this model hold them: a number without a
\* fraction
IsInteger(value) == value.t = "Number" /\ value.exponent = 0

FieldOps == { "validate_string_field", "validate_integer_field",
              "validate_boolean_field", "validate_integer_list_field" }

\* 1.5, -2.5, 1.0 and 1e2 as the parser holds them
Fractions == { Number(TRUE, 15, 0 - 1), Number(FALSE, 25, 0 - 1) }
WholeFractions == { Number(TRUE, 10, 0 - 1), Number(TRUE, 1, 2) }

ListEntries == { Integer(1), Number(TRUE, 15, 0 - 1), String("1"), Boolean(TRUE), Null }

Lists == UNION { { Array(elems) : elems \in [1..n -> ListEntries] } : n \in 0..ListLen }

FieldValues ==
    { Null, Boolean(TRUE), Boolean(FALSE), String("text"), String("1"),
      Integer(0), Integer(1), Integer(0 - 1), Object(<<>>) }
    \cup Fractions \cup WholeFractions \cup Lists

\* The object the caller's text holds
FieldDocument(present, value, ex) ==
    Object((IF ex = "none" THEN <<>> ELSE <<Unknown>>)
           \o (IF present THEN <<Member("field", value)>> ELSE <<>>))

FieldInit ==
    \E o \in FieldOps, present \in BOOLEAN, value \in FieldValues, ex \in {"none", "root"} :
        /\ present \/ value = Null
        /\ op = o /\ validator = "" /\ defects = <<>> /\ extra = ex /\ damage = "none"
        /\ field = "field"
        /\ message = dump(FieldDocument(present, value, ex))
        /\ root = parse_object(dump(FieldDocument(present, value, ex))).obj
        /\ pc = "ready"
        /\ outcome = Pending
        /\ invoked = <<>>
        /\ text = Unset /\ calls = Unset /\ family = Unset /\ returned = Unset
        /\ payload = Unset /\ bytes = Unset /\ serialized = Unset /\ parsed = Unset

FieldCall(o) == pc = "ready" /\ op = o

ValidateStringField ==
    FieldCall("validate_string_field") /\ Returns(validate_string_field(root, field))
ValidateIntegerField ==
    FieldCall("validate_integer_field") /\ Returns(validate_integer_field(root, field))
ValidateBooleanField ==
    FieldCall("validate_boolean_field") /\ Returns(validate_boolean_field(root, field))
ValidateIntegerListField ==
    FieldCall("validate_integer_list_field")
    /\ Returns(validate_integer_list_field(root, field))

\* let text: String = error.into()
Into ==
    /\ pc = "done" /\ ~outcome.ok
    /\ text' = into(outcome.err)
    /\ pc' = "reported"
    /\ UNCHANGED <<op, validator, defects, extra, damage, field, message, outcome, root,
                   invoked, codec, calls, families>>

FieldNext ==
    \/ ValidateStringField
    \/ ValidateIntegerField
    \/ ValidateBooleanField
    \/ ValidateIntegerListField
    \/ Into

FieldSpec == FieldInit /\ [][FieldNext]_vars

(***************************************************************************)
(* Properties of the field checks                                          *)
(***************************************************************************)
Returned(o) == pc # "ready" /\ op = o

\* What the container holds under the field of the call
Held == Get(root, field)

\* A number whose value is a whole number
IsIntegral(value) ==
    /\ value.t = "Number"
    /\ value.exponent >= 0 \/ value.mantissa % Pow10(0 - value.exponent) = 0

NonIntegers(elems) == { i \in 1..Len(elems) : ~IsIntegral(elems[i]) }

NonNumbers(elems) == { i \in 1..Len(elems) : elems[i].t # "Number" }

\* C11 with "not an integer" read as "not a number": the outcome of the
\* integer list check as the code computes it
C11_IntegerListOutcomeOverNumbers ==
    Returned("validate_integer_list_field") =>
        outcome = IF ~Held.some THEN Err(MissingField(<<field>>))
                  ELSE IF Held.val.t # "Array"
                  THEN Err(InvalidFormat(<<field, " is no array">>))
                  ELSE IF NonNumbers(Held.val.elems) # {}
                  THEN Err(InvalidFormat(<<field, " contains a non integer entry">>))
                  ELSE Ok

ExpectedType(o) ==
    CASE o = "validate_string_field" -> "String"
      [] o = "validate_integer_field" -> "Number"
      [] o = "validate_boolean_field" -> "Boolean"
ExpectedName(o) ==
    CASE o = "validate_string_field" -> "string"
      [] o = "validate_integer_field" -> "integer"
      [] o = "validate_boolean_field" -> "boolean"

\* The scalar type a description says the value is not
TypeNamedIn(description) ==
    CASE description[2] = " is no string" -> "string"
      [] description[2] = " is no integer" -> "integer"
      [] description[2] = " is no boolean" -> "boolean"
      [] OTHER -> "none"

ScalarOps == { "validate_string_field", "validate_integer_field", "validate_boolean_field" }

Mismatched == op \in ScalarOps /\ pc # "ready" /\ Held.some /\ Held.val.t # ExpectedType(op)

\* C16: a scalar check given a present value of another type returns
\* InvalidFormat with a description that names the field and the scalar type
\* that check expects
C16_MismatchNamesExpectedType ==
    Mismatched =>
        /\ ~outcome.ok /\ outcome.err.variant = "InvalidFormat"
        /\ outcome.err.text[1] = field
        /\ TypeNamedIn(outcome.err.text) = ExpectedName(op)

\* C16 for the string and the integer check, whose descriptions name their
\* own type; the boolean check's description names the field only
C16_MismatchNamesField ==
    Mismatched =>
        /\ ~outcome.ok /\ outcome.err.variant = "InvalidFormat"
        /\ outcome.err.text[1] = field
        /\ op # "validate_boolean_field" => TypeNamedIn(outcome.err.text) = ExpectedName(op)

C16_Witness ==
    /\ Mismatched
    /\ op = "validate_boolean_field"
    /\ outcome = Err(InvalidFormat(<<"field", " is no integer">>))

Reported == pc = "reported"

\* C13: the string of InvalidFormat(description) is the description, and the
\* string of MissingField(name) is "Required field missing: " followed by
\* the name
C13_StringOfFailure ==
    Reported =>
        /\ outcome.err.variant = "InvalidFormat" => text = outcome.err.text
        /\ outcome.err.variant = "MissingField" =>
               /\ Len(text) = Len(outcome.err.text) + 1
               /\ text[1] = "Required field missing: "
               /\ SubSeq(text, 2, Len(text)) = outcome.err.text

\* Both kinds of failure were converted
C13_Witness ==
    /\ Reported
    /\ outcome.err.variant = "MissingField"
    /\ text = <<"Required field missing: ", "field">>

(***************************************************************************)
(* The synchronisation data record of the tests, validated as it is and    *)
(* with one place changed.  The identifier carries its number under the    *)
(* key the caller writes.                                                  *)
(***************************************************************************)
IdKeys == { "type", "kind" }

SyncDataRecord(key) ==
    Object(<<Member("robotId", Object(<<Member(key, Integer(0)),
                                        Member("value", String("r1"))>>)),
             Member("transitionId", Integer(1)),
             Member("transitionHolds", Boolean(TRUE)),
             Member("ack", Boolean(TRUE))>>)

RecordPaths(key) ==
    { <<Step("robotId", 0)>>, <<Step("robotId", 0), Step(key, 0)>>,
      <<Step("robotId", 0), Step("value", 0)>>, <<Step("transitionId", 0)>>,
      <<Step("transitionHolds", 0)>>, <<Step("ack", 0)>> }

RecordChanges(key) == { <<>> } \cup { <<d>> : d \in DefectsWith(RecordPaths(key), Variants) }

RecordBytes(key, changes, ex) ==
    LET changed == ChangeAll(SyncDataRecord(key), changes, 1) IN
    dump(IF ex = "none" THEN changed ELSE WithUnknown(changed, ex = "everywhere"))

RecordInit ==
    \E key \in IdKeys, ex \in Extras :
      \E changes \in RecordChanges(key) :
        /\ op = "validate" /\ validator = "SyncDataValidator"
        /\ defects = changes /\ extra = ex /\ damage = "none" /\ field = ""
        /\ message = RecordBytes(key, changes, ex)
        /\ pc = "ready"
        /\ outcome = Pending
        /\ root = Object(<<>>)
        /\ invoked = <<>>
        /\ text = Unset /\ calls = Unset /\ family = Unset /\ returned = Unset
        /\ payload = Unset /\ bytes = Unset /\ serialized = Unset /\ parsed = Unset

RecordNext ==
    \/ SyncData
    \/ Into

RecordSpec == RecordInit /\ [][RecordNext]_vars

\* What the scenario says of the record whose identifier has the given key
ScenarioHolds(key) ==
    pc # "ready" =>
        /\ message = RecordBytes(key, <<>>, "none") => outcome = Ok
        /\ message = RecordBytes(key, <<Defect(<<Step("ack", 0)>>, "missing")>>, "none")
               => outcome = Err(MissingField(<<"ack">>))
        /\ message = RecordBytes(key, <<Defect(<<Step("transitionId", 0)>>, "asString")>>,
                                 "none")
               => /\ ~outcome.ok /\ outcome.err.variant = "InvalidFormat"
                  /\ Names(into(outcome.err), "transitionId")

Threads == 2

ThreadValidators == { "SyncDataValidator", "RoleSwitchValidator" }

\* A complete document, one without its last field, one with a string for
\* its first field
ThreadShapes(v) ==
    { <<>>,
      <<Defect(<<Step(Fields(v)[Len(Fields(v))].name, 0)>>, "missing")>>,
      <<Defect(<<Step(Fields(v)[1].name, 0)>>, "asString")>> }

ThreadInputs ==
    UNION { { [validator |-> v, message |-> Bytes(v, ds, "none", "none")] :
                ds \in ThreadShapes(v) } : v \in ThreadValidators }

Call(input) ==
    [validator |-> input.validator, message |-> input.message, pc |-> "ready",
     root |-> Object(<<>>), next |-> 1, outcome |-> Pending]

ThreadInit ==
    /\ calls \in [1..Threads -> { Call(input) : input \in ThreadInputs }]
    /\ op = "validate" /\ validator = "" /\ defects = <<>> /\ extra = "none"
    /\ damage = "none" /\ field = "" /\ message = <<>>
    /\ pc = "ready"
    /\ outcome = Pending
    /\ root = Object(<<>>)
    /\ invoked = <<>>
    /\ text = Unset /\ family = Unset /\ returned = Unset
    /\ payload = Unset /\ bytes = Unset /\ serialized = Unset /\ parsed = Unset

\* The root kept in one place for all calls
SharedRoot(t) == calls[1].root
\* The root a call parsed, a local of its validate
LocalRoot(t) == calls[t].root

\* One check of a validator's body
CheckField(container, fd) ==
    CASE fd.kind = "string" -> validate_string_field(container, fd.name)
      [] fd.kind = "integer" -> validate_integer_field(container, fd.name)
      [] fd.kind = "boolean" -> validate_boolean_field(container, fd.name)
      [] fd.kind = "id" -> validate_capnzero_id_field(container, fd.name)
      [] fd.kind = "intlist" -> validate_integer_list_field(container, fd.name)
      [] fd.kind = "list" ->
            validate_list_field_with_complex_components(container, fd.name, fd.elem)

Others == <<op, validator, defects, extra, damage, field, message, pc, outcome, root,
            invoked, text, codec, families>>

\* let root = helper::parse_object(message)?
ParseStep(t) ==
    /\ calls[t].pc = "ready"
    /\ LET result == parse_object(calls[t].message) IN
         calls' = [calls EXCEPT ![t] =
                      IF result.ok
                      THEN [@ EXCEPT !.pc = "checking", !.root = result.obj]
                      ELSE [@ EXCEPT !.pc = "done", !.outcome = Err(result.err)]]
    /\ UNCHANGED Others

\* The next check of the body, and Ok(()) after the last one
CheckStep(t) ==
    /\ calls[t].pc = "checking"
    /\ LET checks == Fields(calls[t].validator)
           result == CheckField(LocalRoot(t), checks[calls[t].next])
       IN  calls' = [calls EXCEPT ![t] =
                        IF ~result.ok
                        THEN [@ EXCEPT !.pc = "done", !.outcome = result]
                        ELSE IF calls[t].next = Len(checks)
                        THEN [@ EXCEPT !.pc = "done", !.outcome = Ok]
                        ELSE [@ EXCEPT !.next = @ + 1]]
    /\ UNCHANGED Others

ThreadNext == \E t \in 1..Threads : ParseStep(t) \/ CheckStep(t)

ThreadSpec == ThreadInit /\ [][ThreadNext]_vars

\* The call whose record a step changed
Stepped == { t \in 1..Threads : calls'[t] # calls[t] }

\* C14: under every interleaving a call returns what its validator returns
\* for its bytes when it runs alone, a step changes the record of one call
\* only, and no step changes the buffer or the validator of any call
C14_CallsAreIndependent ==
    [][ /\ Cardinality(Stepped) <= 1
        /\ \A t \in 1..Threads :
              /\ calls'[t].message = calls[t].message
              /\ calls'[t].validator = calls[t].validator
              /\ calls'[t].pc = "done" =>
                    calls'[t].outcome = Validate(calls[t].validator, calls[t].message)
      ]_vars

\* The second call has failed while the first, given other bytes, is between
\* two of its checks
C14_Witness ==
    /\ calls[1].pc = "checking" /\ calls[1].next = 2
    /\ calls[2].pc = "done" /\ ~calls[2].outcome.ok
    /\ calls[1].message # calls[2].message

(***************************************************************************)
(* payloads::TransactionPayload, payloads::Error and the results           *)
(***************************************************************************)
\* A String is the sequence of its characters and a Vec<u8> the sequence of
\* its bytes.  A character of one byte and its byte are written alike; the
\* character "e'" is the two bytes C3 A9; FF is a byte of no character.
Acute == "e'"
LeadByte == "C3"
ContinuationByte == "A9"
InvalidByte == "FF"

\* str::as_bytes
RECURSIVE as_bytes(_)
as_bytes(string) ==
    IF string = <<>> THEN <<>>
    ELSE (IF Head(string) = Acute THEN <<LeadByte, ContinuationByte>> ELSE <<Head(string)>>)
         \o as_bytes(Tail(string))

\* String::from_utf8: the characters of the bytes, or a failure at the first
\* byte sequence that is no character
RECURSIVE DecodeFrom(_, _, _)
DecodeFrom(vec, i, string) ==
    IF i > Len(vec) THEN [ok |-> TRUE, string |-> string]
    ELSE IF vec[i] = LeadByte
    THEN IF i + 1 <= Len(vec) /\ vec[i + 1] = ContinuationByte
         THEN DecodeFrom(vec, i + 2, Append(string, Acute))
         ELSE [ok |-> FALSE, string |-> <<>>]
    ELSE IF vec[i] \in {ContinuationByte, InvalidByte}
    THEN [ok |-> FALSE, string |-> <<>>]
    ELSE DecodeFrom(vec, i + 1, Append(string, vec[i]))

String_from_utf8(vec) == DecodeFrom(vec, 1, <<>>)

\* A u64 is its four 16-bit limbs, the least significant first
Limb == 65536
U64Zero == <<0, 0, 0, 0>>
U64Max == <<65535, 65535, 65535, 65535>>

Digits == <<"0", "1", "2", "3", "4", "5", "6", "7", "8", "9">>
IsDigit(c) == \E i \in 1..10 : Digits[i] = c
to_digit(c) == (CHOOSE i \in 1..10 : Digits[i] = c) - 1

\* u64::checked_mul(10) followed by u64::checked_add(digit)
RECURSIVE MulAddFrom(_, _, _)
MulAddFrom(x, i, carry) ==
    LET put(limb, rest) == [limbs |-> <<limb>> \o rest.limbs, carry |-> rest.carry]
    IN  IF i > Len(x) THEN [limbs |-> <<>>, carry |-> carry]
        ELSE put((x[i] * 10 + carry) % Limb,
                 MulAddFrom(x, i + 1, (x[i] * 10 + carry) \div Limb))

\* The accumulation wrapping around on overflow
checked_mul_add_wrapping(x, digit) ==
    LET checked(result) == [ok |-> TRUE, val |-> result.limbs]
    IN  checked(MulAddFrom(x, 1, digit))
checked_mul_add(x, digit) ==
    LET checked(result) == [ok |-> result.carry = 0, val |-> result.limbs]
    IN  checked(MulAddFrom(x, 1, digit))

\* The digits of from_str_radix(src, 10), front to back
RECURSIVE ParseDigits(_, _, _)
ParseDigits(src, i, result) ==
    LET next(sum) == IF sum.ok THEN ParseDigits(src, i + 1, sum.val)
                     ELSE [ok |-> FALSE, val |-> U64Zero]
    IN  IF i > Len(src) THEN [ok |-> TRUE, val |-> result]
        ELSE IF ~IsDigit(src[i]) THEN [ok |-> FALSE, val |-> U64Zero]
        ELSE next(checked_mul_add(result, to_digit(src[i])))

\* str::parse::<u64>: an optional "+", then one or more decimal digits
parse_u64(src) ==
    IF src = <<>> THEN [ok |-> FALSE, val |-> U64Zero]
    ELSE IF src[1] \in {"+", "-"} /\ Len(src) = 1 THEN [ok |-> FALSE, val |-> U64Zero]
    ELSE IF src[1] = "+" THEN ParseDigits(src, 2, U64Zero)
    ELSE ParseDigits(src, 1, U64Zero)

\* x / 10 and x % 10, from the most significant limb down
RECURSIVE DivModFrom(_, _, _)
DivModFrom(x, i, rem) ==
    LET put(limb, rest) == [limbs |-> Append(rest.limbs, limb), rem |-> rest.rem]
    IN  IF i = 0 THEN [limbs |-> <<>>, rem |-> rem]
        ELSE put((rem * Limb + x[i]) \div 10,
                 DivModFrom(x, i - 1, (rem * Limb + x[i]) % 10))

\* impl Display for u64
RECURSIVE DisplayFrom(_)
DisplayFrom(x) ==
    LET put(result) == DisplayFrom(result.limbs) \o <<Digits[result.rem + 1]>>
    IN  IF x = U64Zero THEN <<>> ELSE put(DivModFrom(x, Len(x), 0))

display_u64(x) == IF x = U64Zero THEN <<"0">> ELSE DisplayFrom(x)

\* payloads::TransactionPayload::new
TransactionPayload(agent_id, message_type, message_bytes, timestamp) ==
    [agent_id |-> agent_id, message_type |-> message_type,
     message_bytes |-> message_bytes, timestamp |-> timestamp]

\* payloads::Error
InvalidPayload(description) == [variant |-> "InvalidPayload", text |-> description]
InvalidTimestamp == [variant |-> "InvalidTimestamp", text |-> "Payload contains invalid timestamp"]

\* SerializationResult and ParsingResult
Serialized(output) == [ok |-> TRUE, bytes |-> output, err |-> NoError]
NotSerialized(e) == [ok |-> FALSE, bytes |-> <<>>, err |-> e]
ParsedPayload(p) == [ok |-> TRUE, payload |-> p, err |-> NoError]
NotParsed(e) == [ok |-> FALSE, payload |-> Unset, err |-> e]

(***************************************************************************)
(* payloads::pipe_separated::Format                                        *)
(***************************************************************************)
\* format!("{}|{}|{}|{}", ...)
Formatted(agent_id, message_type, message_text, timestamp) ==
    agent_id \o <<"|">> \o message_type \o <<"|">> \o message_text \o <<"|">>
    \o display_u64(timestamp)

\* Format::serialize
serialize(p) ==
    LET output(decoded) ==
            IF ~decoded.ok
            THEN NotSerialized(InvalidPayload("Message is not a UTF8 String"))
            ELSE Serialized(as_bytes(Formatted(p.agent_id, p.message_type, decoded.string,
                                               p.timestamp)))
    IN  output(String_from_utf8(p.message_bytes))

\* str::split("|"): the parts between the separators, one more than there
\* are separators
RECURSIVE SplitFrom(_, _, _, _)
SplitFrom(string, i, part, parts) ==
    IF i > Len(string) THEN Append(parts, part)
    ELSE IF string[i] = "|" THEN SplitFrom(string, i + 1, <<>>, Append(parts, part))
    ELSE SplitFrom(string, i + 1, Append(part, string[i]), parts)

split(string) == SplitFrom(string, 1, <<>>, <<>>)

\* The part content.next() returns on its n-th call
NextPart(content, n) == IF n <= Len(content) THEN Some(content[n]) ELSE None

\* deserialize reading a timestamp that is left out as 0
deserialize_defaulting(data) ==
    LET read(content, timestamp) ==
            IF ~timestamp.ok THEN NotParsed(InvalidTimestamp)
            ELSE ParsedPayload(TransactionPayload(content[1], content[2],
                                                  as_bytes(content[3]), timestamp.val))
        parts(content) ==
            IF ~NextPart(content, 1).some
            THEN NotParsed(InvalidPayload("Payload contains no agent id"))
            ELSE IF ~NextPart(content, 2).some
            THEN NotParsed(InvalidPayload("Payload contains no message type"))
            ELSE IF ~NextPart(content, 3).some
            THEN NotParsed(InvalidPayload("Payload contains no message"))
            ELSE IF ~NextPart(content, 4).some
            THEN read(content, [ok |-> TRUE, val |-> U64Zero])
            ELSE read(content, parse_u64(NextPart(content, 4).val))
        of_string(decoded) ==
            IF ~decoded.ok THEN NotParsed(InvalidPayload("Payload is not a string"))
            ELSE parts(split(decoded.string))
    IN  of_string(String_from_utf8(data))
\* Format::deserialize
deserialize(data) ==
    LET read(content, timestamp) ==
            IF ~timestamp.ok THEN NotParsed(InvalidTimestamp)
            ELSE ParsedPayload(TransactionPayload(content[1], content[2],
                                                  as_bytes(content[3]), timestamp.val))
        parts(content) ==
            IF ~NextPart(content, 1).some
            THEN NotParsed(InvalidPayload("Payload contains no agent id"))
            ELSE IF ~NextPart(content, 2).some
            THEN NotParsed(InvalidPayload("Payload contains no message type"))
            ELSE IF ~NextPart(content, 3).some
            THEN NotParsed(InvalidPayload("Payload contains no message"))
            ELSE IF ~NextPart(content, 4).some
            THEN NotParsed(InvalidPayload("Payload contains no timestamp"))
            ELSE read(content, parse_u64(NextPart(content, 4).val))
        of_string(decoded) ==
            IF ~decoded.ok THEN NotParsed(InvalidPayload("Payload is not a string"))
            ELSE parts(split(decoded.string))
    IN  of_string(String_from_utf8(data))

(***************************************************************************)
(* The payloads and byte buffers the format is called with                 *)
(***************************************************************************)
MaxText == 1

StringsOver(alphabet, n) == UNION { [1..k -> alphabet] : k \in 0..n }

\* Agent ids and message types, with and without the separator
Names1 == StringsOver({"a", "|", Acute}, MaxText)
Names2 == StringsOver({"t", "|"}, MaxText)

\* Message bytes: text, text with the separator, and bytes that are no text
Messages == StringsOver({"m", "|", LeadByte, ContinuationByte, InvalidByte}, MaxText + 1)

\* 0, 1, 10, 65536, 684948894984 and 2^64 - 1
Timestamps == { U64Zero, <<1, 0, 0, 0>>, <<10, 0, 0, 0>>, <<0, 1, 0, 0>>,
                <<46344, 31266, 159, 0>>, U64Max }

Payloads ==
    { TransactionPayload(a, t, m, ts) :
        a \in Names1, t \in Names2, m \in Messages, ts \in Timestamps }

\* Fourth parts: decimal texts of a u64 with and without leading zeros or a
\* sign, texts that are no number, and numbers from 2^64 on
TimestampTexts ==
    { <<>>,
      <<"0">>,
      <<"1">>,
      <<"4", "2">>,
      <<"0", "0", "7">>,
      <<"+", "5">>,
      <<"+">>,
      <<"-", "1">>,
      <<"-">>,
      <<"1", "a">>,
      <<"a">>,
      <<"1", ".", "5">>,
      <<" ", "1">>,
      <<"6", "8", "4", "9", "4", "8", "8", "9", "4", "9", "8", "4">>,
      <<"1", "8", "4", "4", "6", "7", "4", "4", "0", "7", "3", "7", "0", "9", "5", "5", "1", "6", "1", "5">>,
      <<"1", "8", "4", "4", "6", "7", "4", "4", "0", "7", "3", "7", "0", "9", "5", "5", "1", "6", "1", "6">>,
      <<"9", "9", "9", "9", "9", "9", "9", "9", "9", "9", "9", "9", "9", "9", "9", "9", "9", "9", "9", "9">>,
      <<"0", "0", "0", "0", "0", "0", "0", "0", "0", "0", "0", "0", "0", "0", "0", "0", "0", "0", "0", "0", "1">> }

\* Parts without the separator
Parts == StringsOver({"a", Acute}, MaxText) \cup { <<"5">> }

RECURSIVE Joined(_)
Joined(parts) ==
    IF Len(parts) = 1 THEN parts[1]
    ELSE parts[1] \o <<"|">> \o Joined(Tail(parts))

\* One to three parts, or three parts followed by a fourth and at most one
\* more
PartLists ==
    UNION { [1..n -> Parts] : n \in 1..3 }
    \cup { three \o <<fourth>> \o more :
             three \in [1..3 -> Parts], fourth \in TimestampTexts,
             more \in { <<>>, <<<<>>>>, <<<<"a">>>> } }

BufferDamages == { "none", "invalid byte", "cut character" }

Buffer(parts, dm) ==
    CASE dm = "none" -> as_bytes(Joined(parts))
      [] dm = "invalid byte" -> as_bytes(Joined(parts)) \o <<InvalidByte>>
      [] dm = "cut character" -> <<ContinuationByte>> \o as_bytes(Joined(parts))

(***************************************************************************)
(* Calls of the format: serialize on a payload, deserialize on a buffer,   *)
(* and deserialize on what serialize returned.                             *)
(***************************************************************************)
FormatOps == { "serialize", "deserialize" }

Buffers == { Buffer(list, dm) : list \in PartLists, dm \in BufferDamages }

FormatInit ==
    /\ \/ op = "serialize" /\ payload \in Payloads /\ bytes = Unset
       \/ op = "deserialize" /\ payload = Unset /\ bytes \in Buffers
    /\ serialized = Unset /\ parsed = Unset
    /\ pc = "ready"
    /\ validator = "" /\ defects = <<>> /\ extra = "none" /\ damage = "none"
    /\ field = "" /\ message = <<>>
    /\ outcome = Pending
    /\ root = Object(<<>>)
    /\ invoked = <<>>
    /\ text = Unset /\ calls = Unset /\ family = Unset /\ returned = Unset

Validation == <<op, validator, defects, extra, damage, field, message, outcome, root,
                invoked, text, calls, families>>

Serialize ==
    /\ pc = "ready" /\ op = "serialize"
    /\ serialized' = serialize(payload)
    /\ pc' = "serialized"
    /\ UNCHANGED <<payload, bytes, parsed, Validation>>

Deserialize ==
    /\ pc = "ready" /\ op = "deserialize"
    /\ parsed' = deserialize(bytes)
    /\ pc' = "done"
    /\ UNCHANGED <<payload, bytes, serialized, Validation>>

\* The parser is given the bytes the serializer returned
DeserializeSerialized ==
    /\ pc = "serialized" /\ serialized.ok
    /\ bytes' = serialized.bytes
    /\ parsed' = deserialize(serialized.bytes)
    /\ pc' = "done"
    /\ UNCHANGED <<payload, serialized, Validation>>

FormatNext ==
    \/ Serialize
    \/ Deserialize
    \/ DeserializeSerialized

FormatSpec == FormatInit /\ [][FormatNext]_vars

(***************************************************************************)
(* Properties of the format                                                *)
(***************************************************************************)
\* The bytes are the bytes of some text
IsUtf8(vec) ==
    \A i \in 1..Len(vec) :
        /\ vec[i] # InvalidByte
        /\ vec[i] = LeadByte => (i < Len(vec) /\ vec[i + 1] = ContinuationByte)
        /\ vec[i] = ContinuationByte => (i > 1 /\ vec[i - 1] = LeadByte)

Separators(vec) == { i \in 1..Len(vec) : vec[i] = "|" }

\* The position of the n-th separator; 0 before the first part and one past
\* the end after the last
SeparatorAt(vec, n) ==
    IF n = 0 THEN 0
    ELSE IF n > Cardinality(Separators(vec)) THEN Len(vec) + 1
    ELSE CHOOSE i \in Separators(vec) :
             Cardinality({ j \in Separators(vec) : j < i }) = n - 1

\* The bytes of the n-th part
PartOf(vec, n) == SubSeq(vec, SeparatorAt(vec, n - 1) + 1, SeparatorAt(vec, n) - 1)

RoundTrip == op = "serialize" /\ pc # "ready"

\* C17: serialize accepts every payload whose message bytes are text, and
\* deserialize returns that payload for the bytes serialize returned
C17_RoundTrip ==
    (RoundTrip /\ IsUtf8(payload.message_bytes)) =>
        /\ serialized.ok
        /\ pc = "done" => (parsed.ok /\ parsed.payload = payload)

HasSeparator(p) ==
    \/ Separators(p.agent_id) # {}
    \/ Separators(p.message_type) # {}
    \/ Separators(p.message_bytes) # {}

\* C17 for the payloads that have no separator in their agent id, message
\* type and message
C17_RoundTripWithoutSeparator ==
    (RoundTrip /\ IsUtf8(payload.message_bytes) /\ ~HasSeparator(payload)) =>
        /\ serialized.ok
        /\ pc = "done" => (parsed.ok /\ parsed.payload = payload)

C17_Witness ==
    /\ RoundTrip /\ pc = "done"
    /\ payload.agent_id = <<"|">>
    /\ payload.timestamp = U64Max
    /\ ~parsed.ok

\* C18: what serialize returns is text that has exactly four parts: the
\* agent id, the message type, the message and the timestamp in decimal
C18_FourParts ==
    (RoundTrip /\ serialized.ok) =>
        /\ IsUtf8(serialized.bytes)
        /\ Cardinality(Separators(serialized.bytes)) = 3
        /\ PartOf(serialized.bytes, 1) = as_bytes(payload.agent_id)
        /\ PartOf(serialized.bytes, 2) = as_bytes(payload.message_type)
        /\ PartOf(serialized.bytes, 3) = payload.message_bytes
        /\ PartOf(serialized.bytes, 4) = display_u64(payload.timestamp)

\* C18 with the parts counted by their lengths: the output is the agent id,
\* the message type, the message and the timestamp with one separator
\* between two of them
C18_FourFields ==
    (RoundTrip /\ serialized.ok) =>
        /\ IsUtf8(serialized.bytes)
        /\ serialized.bytes = as_bytes(payload.agent_id) \o <<"|">>
                              \o as_bytes(payload.message_type) \o <<"|">>
                              \o payload.message_bytes \o <<"|">>
                              \o display_u64(payload.timestamp)

C18_Witness ==
    /\ RoundTrip /\ serialized.ok
    /\ Cardinality(Separators(serialized.bytes)) = 5
    /\ payload.timestamp = <<0, 1, 0, 0>>

Deserialized == op = "deserialize" /\ pc = "done"

\* C19: deserialize returns InvalidPayload, and no payload, for bytes that
\* have fewer than four parts and for bytes that are no text
C19_TooFewPartsOrNoText ==
    (Deserialized /\ (Cardinality(Separators(bytes)) < 3 \/ ~IsUtf8(bytes))) =>
        /\ ~parsed.ok
        /\ parsed.err.variant = "InvalidPayload"
        /\ parsed.payload = Unset

C19_Witness ==
    /\ Deserialized
    /\ bytes = <<"a", "|", "a", "|", "5">>
    /\ parsed = NotParsed(InvalidPayload("Payload contains no timestamp"))

\* The decimal text of 2^64 - 1
MaxDigits == <<"1", "8", "4", "4", "6", "7", "4", "4", "0", "7", "3", "7", "0", "9", "5", "5", "1", "6", "1", "5">>

RECURSIVE StripZeros(_)
StripZeros(digits) ==
    IF Len(digits) > 1 /\ digits[1] = "0" THEN StripZeros(Tail(digits)) ELSE digits

\* Decimal digits only, at least one
IsDecimal(string) == string # <<>> /\ \A i \in 1..Len(string) : IsDigit(string[i])

\* A decimal text without leading zeros that is at most 2^64 - 1
FitsU64(digits) ==
    \/ Len(digits) < Len(MaxDigits)
    \/ /\ Len(digits) = Len(MaxDigits)
       /\ \/ digits = MaxDigits
          \/ \E i \in 1..Len(digits) :
                /\ SubSeq(digits, 1, i - 1) = SubSeq(MaxDigits, 1, i - 1)
                /\ to_digit(digits[i]) < to_digit(MaxDigits[i])

IsU64Text(string) == IsDecimal(string) /\ FitsU64(StripZeros(string))

\* Neither the decimal text of a u64 nor such a text after a plus sign
IsNoU64(string) ==
    /\ ~IsU64Text(string)
    /\ ~(string # <<>> /\ string[1] = "+" /\ IsU64Text(Tail(string)))

FourParts == Deserialized /\ IsUtf8(bytes) /\ Cardinality(Separators(bytes)) >= 3

\* C20: for bytes id|type|msg|ts deserialize returns the payload of id,
\* type, the bytes of msg and the number ts when ts is the decimal text of a
\* u64, and InvalidTimestamp when ts is no u64
C20_FourPartsAreRead ==
    FourParts =>
        /\ IsU64Text(PartOf(bytes, 4)) =>
              /\ parsed.ok
              /\ as_bytes(parsed.payload.agent_id) = PartOf(bytes, 1)
              /\ as_bytes(parsed.payload.message_type) = PartOf(bytes, 2)
              /\ parsed.payload.message_bytes = PartOf(bytes, 3)
              /\ display_u64(parsed.payload.timestamp) = StripZeros(PartOf(bytes, 4))
        /\ IsNoU64(PartOf(bytes, 4)) => parsed = NotParsed(InvalidTimestamp)

C20_Witness ==
    /\ FourParts
    /\ PartOf(bytes, 4) = MaxDigits
    /\ parsed.ok /\ parsed.payload.timestamp = U64Max
    /\ parsed.payload.agent_id = <<Acute>>

(***************************************************************************)
(* Properties of the bytes a nested validator is given                     *)
(***************************************************************************)
\* The bytes are text and the text is one JSON value
IsJsonText(data) == from_utf8(data).ok /\ parse(data).ok

\* Valid, or one of the failures a validator has for a well-formed text
NestedFailure(result) ==
    \/ result.ok
    \/ result.err.variant = "MissingField"
    \/ /\ result.err.variant = "InvalidFormat"
       /\ result.err.text \notin { <<"Message is no UTF-8 string">>,
                                   <<"Message is no JSON structure">> }

\* C25: the dump of a field's value or of a list's entry is UTF-8 text of
\* one JSON value, so the nested validator of validate_capnzero_id_field and
\* of validate_list_field_with_complex_components is valid or fails with
\* "Root of message is no object", MissingField or a failure of a field's
\* type, never with the failures for bytes that are no UTF-8 or no JSON
C25_NestedBytesAreJsonText ==
    /\ (IdChecked /\ Get(root, field).some) =>
          /\ IsJsonText(dump(Get(root, field).val))
          /\ NestedFailure(outcome)
    /\ (ListChecked /\ Get(root, field).some /\ Get(root, field).val.t = "Array") =>
          /\ \A i \in 1..Len(Entries) :
                IsJsonText(dump(Entries[i])) /\ NestedFailure(EntryOutcome(i))
          /\ NestedFailure(outcome)
    /\ (Validated /\ damage = "none") => NestedFailure(outcome)

\* An identifier field holding a string was checked
C25_Witness ==
    /\ IdChecked
    /\ Get(root, field).some /\ Get(root, field).val.t = "String"
    /\ outcome = Err(InvalidFormat(<<"Root of message is no object">>))

(***************************************************************************)
(* helper::calculate_checksum                                              *)
(***************************************************************************)
\* The value of a byte
ByteValue(b) ==
    IF IsDigit(b) THEN 48 + to_digit(b)
    ELSE CASE b = "a" -> 97
           [] b = LeadByte -> 195
           [] b = ContinuationByte -> 169
           [] OTHER -> 255

\* hasher.update(data): the state of the hasher after the bytes
RECURSIVE Update(_, _, _)
Update(state, data, i) ==
    IF i > Len(data) THEN state
    ELSE Update((state * 31 + ByteValue(data[i])) % 65521, data, i + 1)

\* sha2::Sha512: hasher.finalize() is 64 bytes that depend on all the bytes
\* of the data.  The bytes computed here are not those of SHA-512; their
\* number is
Sha512(data) ==
    LET finalize(state) == [i \in 1..64 |-> (state * i + 7 * i) % 256]
    IN  finalize(Update(1, data, 1))

HexDigits == <<"0", "1", "2", "3", "4", "5", "6", "7", "8", "9", "a", "b", "c", "d", "e", "f">>

\* data_encoding::HEXLOWER.encode: two lowercase hex digits for each byte
HEXLOWER_encode(digest) ==
    [k \in 1..(2 * Len(digest)) |->
        IF k % 2 = 1 THEN HexDigits[(digest[(k + 1) \div 2] \div 16) + 1]
        ELSE HexDigits[(digest[k \div 2] % 16) + 1]]

calculate_checksum(data) == HEXLOWER_encode(Sha512(as_bytes(data)))

(***************************************************************************)
(* TransactionFamily                                                       *)
(***************************************************************************)
\* What a method returned, or that it panicked
Value(v) == [panic |-> FALSE, val |-> v]
Panic == [panic |-> TRUE, val |-> <<>>]

\* &string[..n]: the first n bytes; panics when n is past the end or inside
\* a character
SliceTo(string, n) ==
    LET width(k) == k + Cardinality({ j \in 1..k : string[j] = Acute })
        ends == { k \in 0..Len(string) : k <= n /\ width(k) = n }
    IN  IF ends = {} THEN Panic ELSE Value(SubSeq(string, 1, CHOOSE k \in ends : TRUE))

\* TransactionFamily::new
TransactionFamily(name, versions) == [name |-> name, versions |-> versions]

\* calculate_namespace slicing the name
calculate_namespace_of_name(self) == SliceTo(self.name, 6)
\* TransactionFamily::calculate_namespace
calculate_namespace(self) == SliceTo(calculate_checksum(self.name), 6)

\* format!("{}{}{}", &message.agent_id, &message.message_type, &message.timestamp)
StateAddressInput(m) == m.agent_id \o m.message_type \o display_u64(m.timestamp)

\* calculate_state_address_for with the whole checksum of the payload
calculate_state_address_for_unsliced(self, m) ==
    LET address(namespace_part, payload_part) ==
            IF namespace_part.panic \/ SliceTo(namespace_part.val, 6).panic THEN Panic
            ELSE Value(SliceTo(namespace_part.val, 6).val \o payload_part)
    IN  address(calculate_namespace(self), calculate_checksum(StateAddressInput(m)))
\* TransactionFamily::calculate_state_address_for
calculate_state_address_for(self, m) ==
    LET address(namespace_part, payload_part) ==
            IF namespace_part.panic \/ SliceTo(namespace_part.val, 6).panic
               \/ SliceTo(payload_part, 64).panic
            THEN Panic
            ELSE Value(SliceTo(namespace_part.val, 6).val \o SliceTo(payload_part, 64).val)
    IN  address(calculate_namespace(self), calculate_checksum(StateAddressInput(m)))

\* latest_version returning the first version
latest_version_first(self) ==
    IF self.versions = <<>> THEN Panic ELSE Value(self.versions[1])
\* TransactionFamily::latest_version: versions.last().expect(..).clone()
latest_version(self) ==
    IF self.versions = <<>> THEN Panic ELSE Value(self.versions[Len(self.versions)])

(***************************************************************************)
(* Calls of the methods of a transaction family                            *)
(***************************************************************************)
MaxVersions == 2

FamilyNames == { <<>>, <<"a">>, <<"a", "1">>, <<Acute>> }

VersionLists == UNION { [1..n -> {"0.1.0", "0.2.0", "0.10.0"}] : n \in 0..MaxVersions }

Families == { TransactionFamily(n, vs) : n \in FamilyNames, vs \in VersionLists }

\* Payloads whose agent id and message type may end or begin with a digit
FamilyPayloads ==
    { TransactionPayload(a, t, m, ts) :
        a \in StringsOver({"a", "1", Acute}, MaxText),
        t \in StringsOver({"a", "1", Acute}, MaxText),
        m \in { <<>>, <<"m">> }, ts \in Timestamps }

FamilyInit ==
    /\ \/ /\ op \in { "calculate_namespace", "latest_version" }
          /\ family \in Families
          /\ payload = Unset
       \/ /\ op = "calculate_state_address_for"
          /\ family \in { TransactionFamily(n, <<"0.1.0">>) : n \in FamilyNames }
          /\ payload \in FamilyPayloads
    /\ returned = Unset
    /\ pc = "ready"
    /\ validator = "" /\ defects = <<>> /\ extra = "none" /\ damage = "none"
    /\ field = "" /\ message = <<>>
    /\ outcome = Pending
    /\ root = Object(<<>>)
    /\ invoked = <<>>
    /\ text = Unset /\ calls = Unset
    /\ bytes = Unset /\ serialized = Unset /\ parsed = Unset

FamilyReturns(value) ==
    /\ returned' = value
    /\ pc' = "done"
    /\ UNCHANGED <<op, validator, defects, extra, damage, field, message, outcome, root,
                   invoked, text, codec, calls, family>>

CalculateNamespace ==
    /\ pc = "ready" /\ op = "calculate_namespace"
    /\ FamilyReturns(calculate_namespace(family))

CalculateStateAddressFor ==
    /\ pc = "ready" /\ op = "calculate_state_address_for"
    /\ FamilyReturns(calculate_state_address_for(family, payload))

LatestVersion ==
    /\ pc = "ready" /\ op = "latest_version"
    /\ FamilyReturns(latest_version(family))

FamilyNext ==
    \/ CalculateNamespace
    \/ CalculateStateAddressFor
    \/ LatestVersion

FamilySpec == FamilyInit /\ [][FamilyNext]_vars

(***************************************************************************)
(* Properties of the transaction family                                    *)
(***************************************************************************)
FamilyReturned(o) == op = o /\ pc = "done"

IsLowerHex(string) ==
    \A i \in 1..Len(string) : \E d \in 1..16 : HexDigits[d] = string[i]

\* C22: for every family name, the empty one included, calculate_namespace
\* does not panic and returns 6 bytes, the first six lowercase hex characters
\* of the checksum of the name.
C22_NamespaceIsSixHexCharacters ==
    FamilyReturned("calculate_namespace") =>
        /\ ~returned.panic
        /\ Len(returned.val) = 6 /\ IsLowerHex(returned.val)
        /\ returned.val = SubSeq(calculate_checksum(family.name), 1, 6)

C22_Witness ==
    /\ FamilyReturned("calculate_namespace")
    /\ family.name = <<>>
    /\ ~returned.panic /\ Len(returned.val) = 6

\* C21: for every family and payload, calculate_state_address_for returns 70
\* bytes (70 hex characters, each one byte): the 6 characters of the family's namespace followed by the first 64
\* hex characters of the checksum of agent_id, message_type and timestamp
\* concatenated.
C21_StateAddressIsNamespaceAndChecksum ==
    FamilyReturned("calculate_state_address_for") =>
        /\ ~returned.panic
        /\ Len(returned.val) = 70 /\ IsLowerHex(returned.val)
        /\ SubSeq(returned.val, 1, 6) = calculate_namespace(family).val
        /\ SubSeq(returned.val, 7, Len(returned.val))
             = SubSeq(calculate_checksum(payload.agent_id \o payload.message_type
                                         \o display_u64(payload.timestamp)), 1, 64)

C21_Witness ==
    /\ FamilyReturned("calculate_state_address_for")
    /\ family.name = <<"a">>
    /\ payload.agent_id = <<Acute>> /\ payload.timestamp = U64Max
    /\ ~returned.panic /\ Len(returned.val) = 70

\* The strings of the versions do not compare as their places in the list do
OutOfOrder(versions) ==
    Len(versions) = 2 /\ versions[1] = "0.2.0" /\ versions[2] = "0.1.0"

\* C23: for a family with a non-empty list of versions, latest_version
\* returns the version at the highest index of the list, whatever the order
\* of the version strings.
C23_LatestVersionIsLastOfList ==
    (FamilyReturned("latest_version") /\ family.versions # <<>>) =>
        returned = Value(family.versions[Len(family.versions)])

C23_Witness ==
    /\ FamilyReturned("latest_version")
    /\ OutOfOrder(family.versions)
    /\ returned = Value("0.1.0")

Triple(m) == <<m.agent_id, m.message_type, m.timestamp>>

\* C24: for one family, a payload that differs from the one addressed in
\* agent_id, message_type or timestamp has a different checksum input, and a
\* payload that differs only in message_bytes has the same address.
C24_InputDeterminesTriple ==
    FamilyReturned("calculate_state_address_for") =>
        \A other \in FamilyPayloads :
            /\ Triple(other) # Triple(payload) =>
                  StateAddressInput(other) # StateAddressInput(payload)
            /\ Triple(other) = Triple(payload) =>
                  calculate_state_address_for(family, other) = returned

\* Payloads that differ only in message_bytes have the same address
C24_MessageBytesDoNotCount ==
    FamilyReturned("calculate_state_address_for") =>
        \A other \in FamilyPayloads :
            Triple(other) = Triple(payload) =>
                calculate_state_address_for(family, other) = returned

C24_Witness ==
    /\ FamilyReturned("calculate_state_address_for")
    /\ Triple(payload) = << <<"1">>, <<>>, <<0, 0, 0, 0>> >>
    /\ returned = calculate_state_address_for(family,
                      TransactionPayload(<<>>, <<"1">>, <<>>, <<0, 0, 0, 0>>))

====
